---- MODULE Spec2Model ----
(***************************************************************************)
(* Model of the two-stage YouTube pipeline.                                *)
(*   src/lambda_function.py : YouTubeExtractor, upload_to_s3,               *)
(*                            analyze_channel_data, lambda_handler          *)
(*   src/glue_job.py        : transform_data, main                          *)
(* Four specifications share the module, one per unit that is exercised:   *)
(*   SpecAnalyze  analyze_channel_data as a pure function                  *)
(*   SpecVideos   the pagination loop of get_channel_videos (FairSpecVideos *)
(*                adds the fairness of a sequential loop)                   *)
(*   SpecLambda   lambda_handler's loop over the fixed channel list         *)
(*   SpecGlue     main / transform_data of the Glue job, run repeatedly     *)
(***************************************************************************)
EXTENDS Integers, Sequences, FiniteSets, Bags, TLC

VARIABLES
    \* analyze_channel_data
    apc, videos_data, analysis,
    \* get_channel_videos
    vpc, max_results, videos, next_page_token, cursor, pages, listed, requests, vresult,
    \* lambda_handler
    lpc, chan, outcome, lvideos, statusCode, lexc, lraised,
    \* glue job
    gpc, ansi, raw, raw_df, transformed_df, store, clock, runs, exc, propagated,
    written, committed, history

avars == <<apc, videos_data, analysis>>
vvars == <<vpc, max_results, videos, next_page_token, cursor, pages, listed, requests, vresult>>
lvars == <<lpc, chan, outcome, lvideos, statusCode, lexc, lraised>>
gvars == <<gpc, ansi, raw, raw_df, transformed_df, store, clock, runs, exc, propagated,
           written, committed, history>>
vars == <<avars, vvars, lvars, gvars>>

None == "None"

\* ------------------------------------------------------------------ bounds
MaxVideos == 11
MaxPages == 3
MaxRecords == 2
MaxItems == 2
MaxRuns == 2

\* ------------------------------------------------------- program constants
TopN == 10
PageCap == 50
HandlerMaxResults == 100
NumChannels == 5
TrendWindowDays == 365

\* ------------------------------------------------------------ count strings
\* A count as the API delivers it: a string, here a sequence of characters.
Digits == {"0", "1", "2", "3", "4", "5", "6", "7", "8", "9"}

DigitVal(c) ==
    CASE c = "0" -> 0 [] c = "1" -> 1 [] c = "2" -> 2 [] c = "3" -> 3 [] c = "4" -> 4
      [] c = "5" -> 5 [] c = "6" -> 6 [] c = "7" -> 7 [] c = "8" -> 8 [] c = "9" -> 9

IsNumeric(s) == Len(s) > 0 /\ \A i \in 1..Len(s) : s[i] \in Digits

RECURSIVE DigitsValue(_)
DigitsValue(s) ==
    IF s = <<>> THEN 0
    ELSE 10 * DigitsValue(SubSeq(s, 1, Len(s) - 1)) + DigitVal(s[Len(s)])

Str9 == <<"9">>
Str10 == <<"1", "0">>
Str100 == <<"1", "0", "0">>
StrAbc == <<"a", "b", "c">>
StrNA == <<"N", "/", "A">>

\* Python int(x) on a str: the value, or ValueError.
PyInt(s) ==
    IF IsNumeric(s) THEN [ok |-> TRUE, value |-> DigitsValue(s)]
    ELSE [ok |-> FALSE, value |-> 0]

\* ----------------------------------------------------------- timestamps
\* A published_at string: the calendar month it names, its age in days at the
\* time of the run, and whether it is written exactly as %Y-%m-%dT%H:%M:%SZ
\* (the API also delivers fractional seconds, "...:00.000Z").
Ts(ym, age, plainZ) == [ym |-> ym, age |-> age, plainZ |-> plainZ]
TsRecent == Ts("2026-10", 20, TRUE)
TsOld == Ts("2024-01", 1000, TRUE)
TsFrac == Ts("2026-09", 50, FALSE)

\* datetime.strptime(s, "%Y-%m-%dT%H:%M:%SZ"): the datetime, or ValueError.
Strptime(s) == [ok |-> s.plainZ, ym |-> s.ym, age |-> s.age]

\* ------------------------------------------------ analyze_channel_data
\* The sort key of line 124: int(x['view_count']).
SortKey(video) == PyInt(video.view_count).value

\* The insertion of an ascending sort (reverse=True left out).
InsertAscending(done, x) ==
    LET before == {i \in 1..Len(done) : SortKey(done[i]) <= SortKey(x)}
        k == Cardinality(before)
    IN  SubSeq(done, 1, k) \o <<x>> \o SubSeq(done, k + 1, Len(done))

\* Where sorted(..., reverse=True) puts x among the already ordered `done`:
\* after every element whose key is >= x's (equal keys keep input order).
InsertReversed(done, x) ==
    LET before == {i \in 1..Len(done) : SortKey(done[i]) >= SortKey(x)}
        k == Cardinality(before)
    IN  SubSeq(done, 1, k) \o <<x>> \o SubSeq(done, k + 1, Len(done))

RECURSIVE SortedByViews(_)
SortedByViews(vs) ==
    IF vs = <<>> THEN <<>>
    ELSE InsertReversed(SortedByViews(SubSeq(vs, 1, Len(vs) - 1)), vs[Len(vs)])

TopEntry(video) ==
    [video_id |-> video.video_id, view_count |-> video.view_count,
     published_at |-> video.published_at]

\* videos_by_views[:10]
TopSlice(sorted) == SubSeq(sorted, 1, IF Len(sorted) < TopN THEN Len(sorted) ELSE TopN)

TopVideos(vs) ==
    LET sorted == TopSlice(SortedByViews(vs))
    IN  [k \in 1..Len(sorted) |-> TopEntry(sorted[k])]

\* The month counts of lines 135-139, for well-formed timestamps.
VideoTrends(vs) ==
    LET recent == {i \in 1..Len(vs) : Strptime(vs[i].published_at).age <= TrendWindowDays}
        months == {vs[i].published_at.ym : i \in recent}
    IN  [m \in months |-> Cardinality({i \in recent : vs[i].published_at.ym = m})]

\* analyze_channel_data: the summary, or the ValueError that int() (line 124)
\* or strptime (line 136) raises; neither is caught in the function.
analyze_channel_data(vs) ==
    IF \E i \in 1..Len(vs) : ~PyInt(vs[i].view_count).ok
    THEN [ok |-> FALSE, exc |-> "ValueError", top_videos |-> <<>>, video_trends |-> <<>>]
    ELSE IF \E i \in 1..Len(vs) : ~Strptime(vs[i].published_at).ok
    THEN [ok |-> FALSE, exc |-> "ValueError", top_videos |-> <<>>, video_trends |-> <<>>]
    ELSE [ok |-> TRUE, exc |-> None, top_videos |-> TopVideos(vs),
          video_trends |-> VideoTrends(vs)]

Video(id, views, ts) == [video_id |-> id, view_count |-> views, published_at |-> ts]

\* The analyzer on its own: the input list grows one item at a time, then the
\* function is applied.
AnalyzeViewCounts == {Str9, Str10}
AnalyzeTimestamps == {TsRecent}

AddVideo ==
    /\ apc = "input"
    /\ Len(videos_data) < MaxVideos
    /\ \E v \in AnalyzeViewCounts, t \in AnalyzeTimestamps :
          videos_data' = Append(videos_data, Video(Len(videos_data) + 1, v, t))
    /\ UNCHANGED <<apc, analysis>>
    /\ UNCHANGED <<vvars, lvars, gvars>>

Analyze ==
    /\ apc = "input"
    /\ analysis' = analyze_channel_data(videos_data)
    /\ apc' = "done"
    /\ UNCHANGED videos_data
    /\ UNCHANGED <<vvars, lvars, gvars>>

NoAnalysis == [ok |-> FALSE, exc |-> "unset", top_videos |-> <<>>, video_trends |-> <<>>]

AnalyzeIdle == apc = "idle" /\ videos_data = <<>> /\ analysis = NoAnalysis

AnalyzeInput == apc = "input" /\ videos_data = <<>> /\ analysis = NoAnalysis

\* ------------------------------------------------- get_channel_videos
Min(a, b) == IF a < b THEN a ELSE b

\* The request size without the cap of min(50, ...).
RequestUncapped(limit, have) == limit - have

\* maxResults of the playlistItems request, line 66.
RequestSize(limit, have) == Min(PageCap, limit - have)

\* The loop exit test of line 89 (a token of 0 is None).
LoopBreaks(token, have, limit) == token = 0 \/ have >= limit

\* zip(playlist_response['items'], video_response['items']), lines 76-86: the
\* k-th record takes its id from the k-th playlist item and its statistics from
\* the k-th statistics item; the shorter list ends the pairing.
ZipPage(ids, stats) ==
    [k \in 1..Min(Len(ids), Len(stats)) |-> [video_id |-> ids[k], stats_of |-> stats[k]]]

\* What the upstream may answer to a page request for `req` items: how many
\* items it lists (never more than asked), and which of them the statistics
\* call leaves out (the rest keep their order).
PageSizes(req) == {k \in {0, 1, req} : k >= 0 /\ k <= req}
Omissions(k) == IF k = 0 THEN {{}} ELSE {{}, {1}}

MaxResultsChoices == {1, 2, PageCap, PageCap + 1, HandlerMaxResults}

RECURSIVE Without(_, _)
Without(ids, drop) ==
    IF ids = <<>> THEN <<>>
    ELSE IF Head(ids) \in drop THEN Without(Tail(ids), drop)
    ELSE <<Head(ids)>> \o Without(Tail(ids), drop)

\* One iteration of the while loop, lines 62-90.
FetchPage ==
    /\ vpc = "loop"
    /\ pages < MaxPages
    /\ LET req == RequestSize(max_results, Len(videos)) IN
       \E k \in PageSizes(req), more \in BOOLEAN :
       \E om \in Omissions(k) :
          LET ids == [i \in 1..k |-> cursor + i]
              stats == Without(ids, {cursor + i : i \in om})
              token == IF more /\ pages + 1 < MaxPages THEN pages + 1 ELSE 0
              got == videos \o ZipPage(ids, stats)
          IN  /\ requests' = requests \cup {req}
              /\ listed' = listed \cup {ids[i] : i \in 1..k}
              /\ cursor' = cursor + k
              /\ pages' = pages + 1
              /\ videos' = got
              /\ next_page_token' = token
              /\ IF LoopBreaks(token, Len(got), max_results)
                 THEN vpc' = "done" /\ vresult' = "list"
                 ELSE vpc' = "loop" /\ vresult' = vresult
    /\ UNCHANGED max_results
    /\ UNCHANGED <<avars, lvars, gvars>>

\* An upstream error inside the loop: caught at line 93, None is returned.
FetchFails ==
    /\ vpc = "loop"
    /\ pages < MaxPages
    /\ requests' = requests \cup {RequestSize(max_results, Len(videos))}
    /\ vpc' = "done"
    /\ vresult' = "None"
    /\ UNCHANGED <<max_results, videos, next_page_token, cursor, pages, listed>>
    /\ UNCHANGED <<avars, lvars, gvars>>

VideosIdle ==
    /\ vpc = "idle" /\ max_results = 0 /\ videos = <<>> /\ next_page_token = 0
    /\ cursor = 0 /\ pages = 0 /\ listed = {} /\ requests = {} /\ vresult = "running"

VideosStart ==
    /\ vpc = "loop" /\ max_results \in MaxResultsChoices /\ videos = <<>>
    /\ next_page_token = 0 /\ cursor = 0 /\ pages = 0 /\ listed = {} /\ requests = {}
    /\ vresult = "running"

\* ------------------------------------------------------ lambda_handler
\* upload_to_s3: True, False when put_object raises ClientError (line 103), and
\* any other exception of put_object leaves the function.
upload_to_s3(put) ==
    CASE put = "ok" -> [returns |-> TRUE, value |-> TRUE, exc |-> None]
      [] put = "ClientError" -> [returns |-> TRUE, value |-> FALSE, exc |-> None]
      [] OTHER -> [returns |-> FALSE, value |-> FALSE, exc |-> put]

\* An except clause that catches KeyError alone.
OuterExceptNarrow(e) ==
    IF e = "KeyError" THEN [statusCode |-> 500, raised |-> FALSE]
    ELSE [statusCode |-> 0, raised |-> TRUE]

\* The except clause of lambda_handler, line 177: every Exception becomes the
\* status-500 result.
OuterExcept(e) == [statusCode |-> 500, raised |-> FALSE]

Configs == {"ok", "no_api_key", "no_bucket"}
PutOutcomes == {"ok", "ClientError", "EndpointConnectionError"}

\* What get_channel_videos may hand to the handler (None apart).
VideoLists ==
    { <<>>,
      <<Video(1, Str10, TsRecent)>>,
      <<Video(1, Str9, TsRecent), Video(2, Str10, TsOld)>>,
      <<Video(1, Str9, TsRecent), Video(2, Str10, TsFrac)>>,
      <<Video(1, StrAbc, TsRecent)>> }

Abort(e, what) ==
    /\ outcome' = [outcome EXCEPT ![chan] = what]
    /\ lexc' = e
    /\ statusCode' = OuterExcept(e).statusCode
    /\ lraised' = OuterExcept(e).raised
    /\ lpc' = "returned"
    /\ chan' = chan

Continue(what) ==
    /\ outcome' = [outcome EXCEPT ![chan] = what]
    /\ chan' = chan + 1
    /\ UNCHANGED <<lpc, statusCode, lexc, lraised>>

\* Lines 148-152: the configuration is read and the extractor built.
LambdaStart ==
    /\ lpc = "start"
    /\ \E cfg \in Configs :
          IF cfg = "ok"
          THEN lpc' = "loop" /\ UNCHANGED <<statusCode, lexc, lraised>>
          ELSE /\ lexc' = "KeyError"
               /\ statusCode' = OuterExcept("KeyError").statusCode
               /\ lraised' = OuterExcept("KeyError").raised
               /\ lpc' = "returned"
    /\ UNCHANGED <<chan, outcome, lvideos>>
    /\ UNCHANGED <<avars, vvars, gvars>>

\* One iteration of the for loop, lines 154-170.
ProcessChannel ==
    /\ lpc = "loop"
    /\ chan <= NumChannels
    /\ \E info \in {"found", None}, listing \in {"list", None},
          vs \in VideoLists, put \in PutOutcomes :
          IF info = None THEN Continue("no_info") /\ UNCHANGED lvideos
          ELSE IF listing = None THEN Continue("no_videos") /\ UNCHANGED lvideos
          ELSE IF vs = <<>> THEN Continue("empty_videos") /\ UNCHANGED lvideos
          ELSE /\ lvideos' = [lvideos EXCEPT ![chan] = vs]
               /\ IF ~analyze_channel_data(vs).ok
                  THEN Abort(analyze_channel_data(vs).exc, "analysis_error")
                  ELSE IF ~upload_to_s3(put).returns
                  THEN Abort(upload_to_s3(put).exc, "upload_raised")
                  ELSE IF upload_to_s3(put).value THEN Continue("uploaded")
                  ELSE Continue("upload_failed")
    /\ UNCHANGED <<avars, vvars, gvars>>

\* Line 172: the loop is over.
LambdaReturn ==
    /\ lpc = "loop"
    /\ chan > NumChannels
    /\ statusCode' = 200
    /\ lpc' = "returned"
    /\ UNCHANGED <<chan, outcome, lvideos, lexc, lraised>>
    /\ UNCHANGED <<avars, vvars, gvars>>

LambdaIdle ==
    /\ lpc = "idle" /\ chan = 1 /\ outcome = [i \in 1..NumChannels |-> "pending"]
    /\ lvideos = [i \in 1..NumChannels |-> <<>>] /\ statusCode = 0 /\ lexc = None /\ lraised = FALSE

LambdaStarts ==
    /\ lpc = "start" /\ chan = 1 /\ outcome = [i \in 1..NumChannels |-> "pending"]
    /\ lvideos = [i \in 1..NumChannels |-> <<>>] /\ statusCode = 0 /\ lexc = None /\ lraised = FALSE

\* ------------------------------------------------------------ glue job
NULL == "NULL"

\* A long column value: SQL NULL or a number.
Long(v) == [null |-> FALSE, v |-> v]
NullLong == [null |-> TRUE, v |-> 0]

\* col(...).cast("long") on a string column, lines 110-112 and 123-125. With
\* spark.sql.ansi.enabled off (the job never sets it; it is the runtime's
\* setting) a non-numeric string becomes NULL; with it on the cast raises.
CastLong(s, ansiMode) ==
    IF IsNumeric(s) THEN [ok |-> TRUE, value |-> Long(DigitsValue(s))]
    ELSE IF ansiMode THEN [ok |-> FALSE, value |-> NullLong]
    ELSE [ok |-> TRUE, value |-> NullLong]

\* get_date_paths, lines 65-80, on the day of the runs.
get_date_paths ==
    [year |-> 2026, month |-> 11, day |-> 1, date_path |-> "year=2026/month=11/day=01"]

\* The raw JSON objects under the day's input path.
ChannelIds == {"UC1", "UC2", NULL}
Malformed == {"none", "video.view_count", "channel_info.subscriber_count"}

RawVideo(i, bad) ==
    [video_id |-> i,
     view_count |-> IF bad = "video.view_count" /\ i = 1 THEN StrAbc ELSE Str10,
     like_count |-> Str9, comment_count |-> Str9]

RawRecord(c, n, bad) ==
    [channel_info |->
        [channel_id |-> c,
         subscriber_count |-> IF bad = "channel_info.subscriber_count" THEN StrNA ELSE Str100,
         video_count |-> Str9, view_count |-> Str100],
     videos |-> [i \in 1..n |-> RawVideo(i, bad)]]

RawRecords == {RawRecord(c, n, bad) : c \in ChannelIds, n \in 1..MaxItems, bad \in Malformed}

\* The order in which spark.read lists the objects is immaterial: the model
\* keeps them in one canonical order.
ChannelRank(c) == CASE c = "UC1" -> 0 [] c = "UC2" -> 1 [] OTHER -> 2
MalformedRank(rec) ==
    IF ~IsNumeric(rec.channel_info.subscriber_count) THEN 2
    ELSE IF ~IsNumeric(rec.videos[1].view_count) THEN 1 ELSE 0
RecordRank(rec) ==
    (ChannelRank(rec.channel_info.channel_id) * (MaxItems + 1) + Len(rec.videos)) * 3
        + MalformedRank(rec)

RECURSIVE Flatten(_)
Flatten(ss) == IF ss = <<>> THEN <<>> ELSE Head(ss) \o Flatten(Tail(ss))

\* explode(col("videos")), lines 99-102: one row per element of the array.
Explode(df) ==
    Flatten([r \in 1..Len(df) |->
        [i \in 1..Len(df[r].videos) |->
            [channel_info |-> df[r].channel_info, video |-> df[r].videos[i]]]])

\* channel_df, lines 105-114: selected from the exploded frame.
ChannelRow(e, ansiMode) ==
    [channel_id |-> e.channel_info.channel_id,
     subscriber_count |-> CastLong(e.channel_info.subscriber_count, ansiMode).value,
     video_count |-> CastLong(e.channel_info.video_count, ansiMode).value,
     channel_view_count |-> CastLong(e.channel_info.view_count, ansiMode).value]

\* videos_df, lines 117-127.
VideoRow(e, ansiMode) ==
    [vid_channel_id |-> e.channel_info.channel_id,
     video_id |-> e.video.video_id,
     view_count |-> CastLong(e.video.view_count, ansiMode).value,
     like_count |-> CastLong(e.video.like_count, ansiMode).value,
     comment_count |-> CastLong(e.video.comment_count, ansiMode).value]

\* The join condition of line 130; NULL equals nothing.
JoinMatches(v, c) ==
    v.vid_channel_id # NULL /\ c.channel_id # NULL /\ v.vid_channel_id = c.channel_id

\* Lines 130-142: the joined row without vid_channel_id, with the partition
\* columns and the processing timestamp.
OutputRow(v, c, date, now) ==
    [channel_id |-> c.channel_id, video_id |-> v.video_id,
     view_count |-> v.view_count, like_count |-> v.like_count,
     comment_count |-> v.comment_count,
     subscriber_count |-> c.subscriber_count, video_count |-> c.video_count,
     channel_view_count |-> c.channel_view_count,
     year |-> date.year, month |-> date.month, day |-> date.day,
     processed_timestamp |-> now]

\* videos_df.join(channel_df, ..., "inner"), line 130.
InnerJoin(vrows, crows, date, now) ==
    Flatten([i \in 1..Len(vrows) |->
        Flatten([j \in 1..Len(crows) |->
            IF JoinMatches(vrows[i], crows[j])
            THEN <<OutputRow(vrows[i], crows[j], date, now)>> ELSE <<>>])])

Transformed(df, ansiMode, now) ==
    LET ex == Explode(df)
    IN  InnerJoin([k \in 1..Len(ex) |-> VideoRow(ex[k], ansiMode)],
                  [k \in 1..Len(ex) |-> ChannelRow(ex[k], ansiMode)],
                  get_date_paths, now)

\* Whether evaluating the casts over the exploded frame raises.
CastsRaise(df, ansiMode) ==
    \E k \in 1..Len(Explode(df)) :
        LET e == Explode(df)[k] IN
        \/ ~CastLong(e.channel_info.subscriber_count, ansiMode).ok
        \/ ~CastLong(e.channel_info.video_count, ansiMode).ok
        \/ ~CastLong(e.channel_info.view_count, ansiMode).ok
        \/ ~CastLong(e.video.view_count, ansiMode).ok
        \/ ~CastLong(e.video.like_count, ansiMode).ok
        \/ ~CastLong(e.video.comment_count, ansiMode).ok

\* An except clause that prints and does not re-raise.
TransformExceptSwallows(e) == "return"

\* transform_data's except clause, lines 167-169, and main's, lines 199-201:
\* both print and re-raise.
TransformExcept(e) == "raise"

MainExcept(e) == "raise"

\* What the location would hold after a write in mode("append").
WriteAppend(old, new) == old \o new

\* .mode("overwrite").parquet(path), lines 160-163: what the location holds
\* after the write.
WriteOverwrite(old, new) == new

\* An exception raised inside transform_data's try block.
RaiseInTransform(e) ==
    /\ exc' = e
    /\ IF TransformExcept(e) = "raise"
       THEN /\ propagated' = (MainExcept(e) = "raise")
            /\ gpc' = "ended"
            /\ runs' = runs + 1
       ELSE /\ gpc' = "transform_returned"
            /\ UNCHANGED <<propagated, runs>>

\* An extraction run lands one more object under the day's input path.
RawLands ==
    /\ gpc = "landing"
    /\ Len(raw) < MaxRecords
    /\ \E rec \in RawRecords :
          /\ IF raw = <<>> THEN TRUE ELSE RecordRank(raw[Len(raw)]) <= RecordRank(rec)
          /\ raw' = Append(raw, rec)
    /\ UNCHANGED <<gpc, ansi, raw_df, transformed_df, store, clock, runs, exc, propagated,
                   written, committed, history>>
    /\ UNCHANGED <<avars, vvars, lvars>>

\* main, lines 176-191: arguments, contexts, job.init, the paths.
MainInit ==
    /\ gpc \in {"landing", "ended"}
    /\ runs < MaxRuns
    /\ clock' = clock + 1
    /\ raw_df' = <<>> /\ transformed_df' = <<>>
    /\ written' = FALSE /\ committed' = FALSE
    /\ \E ok \in BOOLEAN :
          IF ok
          THEN gpc' = "initialized" /\ exc' = None /\ propagated' = FALSE /\ runs' = runs
          ELSE /\ exc' = "getResolvedOptions"
               /\ propagated' = (MainExcept("getResolvedOptions") = "raise")
               /\ gpc' = "ended"
               /\ runs' = runs + 1
    /\ UNCHANGED <<ansi, raw, store, history>>
    /\ UNCHANGED <<avars, vvars, lvars>>

\* transform_data, lines 87-96: the read with the expected schema, and the
\* advisory schema validation.
ReadRaw ==
    /\ gpc = "initialized"
    /\ \E ok \in BOOLEAN :
          IF ok
          THEN raw_df' = raw /\ gpc' = "read" /\ UNCHANGED <<exc, propagated, runs>>
          ELSE raw_df' = raw_df /\ RaiseInTransform("read")
    /\ UNCHANGED <<ansi, raw, transformed_df, store, clock, written, committed, history>>
    /\ UNCHANGED <<avars, vvars, lvars>>

\* transform_data, lines 98-155: the frame is defined and shown/counted. A cast
\* that raises does so here or, the frame being lazy, only in the write.
TransformStep ==
    /\ gpc = "read"
    /\ IF CastsRaise(raw_df, ansi)
       THEN \/ transformed_df' = transformed_df /\ RaiseInTransform("cast")
            \/ /\ transformed_df' = transformed_df /\ gpc' = "transformed"
               /\ UNCHANGED <<exc, propagated, runs>>
       ELSE /\ transformed_df' = Transformed(raw_df, ansi, clock)
            /\ gpc' = "transformed"
            /\ UNCHANGED <<exc, propagated, runs>>
    /\ UNCHANGED <<ansi, raw, raw_df, store, clock, written, committed, history>>
    /\ UNCHANGED <<avars, vvars, lvars>>

\* transform_data, lines 158-165: the partitioned overwrite. A write that
\* fails leaves the location as it was, or already emptied.
WriteStep ==
    /\ gpc = "transformed"
    /\ \/ /\ ~CastsRaise(raw_df, ansi)
          /\ store' = WriteOverwrite(store, transformed_df)
          /\ history' = Append(history, store')
          /\ written' = TRUE
          /\ gpc' = "transform_returned"
          /\ UNCHANGED <<exc, propagated, runs>>
       \/ /\ store' \in {store, <<>>}
          /\ RaiseInTransform(IF CastsRaise(raw_df, ansi) THEN "cast" ELSE "write")
          /\ UNCHANGED <<written, history>>
    /\ UNCHANGED <<ansi, raw, raw_df, transformed_df, clock, committed>>
    /\ UNCHANGED <<avars, vvars, lvars>>

\* main, line 197: job.commit().
Commit ==
    /\ gpc = "transform_returned"
    /\ committed' = TRUE
    /\ gpc' = "ended"
    /\ runs' = runs + 1
    /\ UNCHANGED <<ansi, raw, raw_df, transformed_df, store, clock, exc, propagated,
                   written, history>>
    /\ UNCHANGED <<avars, vvars, lvars>>

GlueIdle ==
    /\ gpc = "idle" /\ ansi = FALSE /\ raw = <<>> /\ raw_df = <<>> /\ transformed_df = <<>>
    /\ store = <<>> /\ clock = 0 /\ runs = 0 /\ exc = None /\ propagated = FALSE
    /\ written = FALSE /\ committed = FALSE /\ history = <<>>

GlueLanding ==
    /\ gpc = "landing" /\ ansi \in BOOLEAN /\ raw = <<>> /\ raw_df = <<>>
    /\ transformed_df = <<>> /\ store = <<>> /\ clock = 0 /\ runs = 0 /\ exc = None
    /\ propagated = FALSE /\ written = FALSE /\ committed = FALSE /\ history = <<>>

\* ------------------------------------------------------ specifications
InitA == AnalyzeInput /\ VideosIdle /\ LambdaIdle /\ GlueIdle
NextAnalyze == AddVideo \/ Analyze
SpecAnalyze == InitA /\ [][NextAnalyze]_vars

InitV == AnalyzeIdle /\ VideosStart /\ LambdaIdle /\ GlueIdle
NextVideos == FetchPage \/ FetchFails
SpecVideos == InitV /\ [][NextVideos]_vars
FairSpecVideos == SpecVideos /\ WF_vars(NextVideos)

InitL == AnalyzeIdle /\ VideosIdle /\ LambdaStarts /\ GlueIdle
NextLambda == LambdaStart \/ ProcessChannel \/ LambdaReturn
SpecLambda == InitL /\ [][NextLambda]_vars

InitG == AnalyzeIdle /\ VideosIdle /\ LambdaIdle /\ GlueLanding
NextGlue == RawLands \/ MainInit \/ ReadRaw \/ TransformStep \/ WriteStep \/ Commit
SpecGlue == InitG /\ [][NextGlue]_vars

Init == AnalyzeInput /\ VideosStart /\ LambdaStarts /\ GlueLanding
Next == NextAnalyze \/ NextVideos \/ NextLambda \/ NextGlue
Spec == Init /\ [][Next]_vars

\* ---------------------------------------------------------------- claims
Range(f) == {f[i] : i \in DOMAIN f}
SeqToBag(rows) == [x \in Range(rows) |-> Cardinality({i \in DOMAIN rows : rows[i] = x})]

\* C1: for assembled records that each hold at least one item, the explode and
\* inner-join pass yields exactly one output row per item whose source
\* identifier matches a present source record (a source with n items gives n
\* rows, not more) and no row for an item whose identifier matches none.
ItemsOf(df, c) == {<<r, i>> \in (1..Len(df)) \X (1..MaxItems + 1) :
                      i <= Len(df[r].videos) /\ df[r].channel_info.channel_id = c}
RowsOf(rows, c) == {k \in 1..Len(rows) : rows[k].channel_id = c}
FrameComputed == gpc \in {"transformed", "transform_returned"} /\ ~CastsRaise(raw_df, ansi)
C1_OneRowPerItem ==
    FrameComputed =>
        /\ \A c \in ChannelIds \ {NULL} :
              Cardinality(RowsOf(transformed_df, c)) = Cardinality(ItemsOf(raw_df, c))
        /\ RowsOf(transformed_df, NULL) = {}

\* C2: a non-numeric count string in any of view_count, like_count,
\* comment_count, subscriber_count, video_count makes the transformation run
\* fail to its caller with nothing written and job.commit not reached.
CountFieldsOf(rec) ==
    {rec.channel_info.subscriber_count, rec.channel_info.video_count,
     rec.channel_info.view_count}
      \cup UNION {{rec.videos[i].view_count, rec.videos[i].like_count,
                   rec.videos[i].comment_count} : i \in 1..Len(rec.videos)}
HasMalformedCount(df) == \E r \in 1..Len(df) : \E f \in CountFieldsOf(df[r]) : ~IsNumeric(f)
C2_MalformedCountAborts ==
    HasMalformedCount(raw_df) =>
        /\ ~written
        /\ ~committed
        /\ gpc \in {"transform_returned", "ended"} => exc # None /\ propagated

\* C3: in lambda_handler, when processing source i fails (no channel info, no
\* video list, or an upload that fails with a storage error), every source
\* after i is still looked up; a failure on one source never cancels the rest.
SoftFailures == {"no_info", "no_videos", "upload_failed"}
C3_FailureDoesNotCancel ==
    lpc = "returned" =>
        \A i \in 1..NumChannels : outcome[i] \in SoftFailures =>
            \A j \in (i + 1)..NumChannels : outcome[j] # "pending"

\* C4: analyze_channel_data does not abort on a malformed published_at: it
\* still returns a summary, and the sources that follow are still processed.
MalformedTimestampOnly(vs) ==
    /\ \E i \in 1..Len(vs) : ~Strptime(vs[i].published_at).ok
    /\ \A i \in 1..Len(vs) : PyInt(vs[i].view_count).ok
C4_MalformedTimestampTolerated ==
    \A i \in 1..NumChannels :
        MalformedTimestampOnly(lvideos[i]) =>
            /\ outcome[i] \in {"uploaded", "upload_failed", "upload_raised"}
            /\ ~(lpc = "returned" /\ chan = i /\ lexc = "ValueError")

\* C6: job.commit is executed only after transform_data returned successfully,
\* that is after the partitioned write; when a step of the run raises, the
\* exception leaves main and job.commit is not executed for that run.
C6_CommitOnlyAfterSuccess ==
    /\ committed => written /\ exc = None
    /\ exc # None => ~committed
    /\ exc # None /\ gpc = "ended" => propagated
C6_Witness == gpc = "ended" /\ exc = "write" /\ propagated /\ ~committed /\ runs = 2

\* C7: lambda_handler never raises; every invocation returns statusCode 200
\* when the run went through and 500 when an exception reached the outermost
\* handler, whatever the exception (configuration, analyzer, upload).
C7_HandlerAlwaysReturnsStatus ==
    /\ ~lraised
    /\ lpc = "returned" =>
          /\ statusCode \in {200, 500}
          /\ statusCode = 500 <=> lexc # None
          /\ statusCode = 200 => \A i \in 1..NumChannels : outcome[i] # "pending"
C7_Witness == lpc = "returned" /\ statusCode = 500 /\ lexc = "ValueError" /\ chan = 3

\* C8: top_videos is the first min(10, n) items of the input ordered by integer
\* view count, descending, ties in input order; so at most 10 entries, all of
\* them items of the input.
ViewRank(vs, i) ==
    1 + Cardinality({j \in 1..Len(vs) : SortKey(vs[j]) > SortKey(vs[i])})
      + Cardinality({j \in 1..(i - 1) : SortKey(vs[j]) = SortKey(vs[i])})
C8_TopVideosStableDescending ==
    apc = "done" =>
        /\ analysis.ok
        /\ Len(analysis.top_videos) = Min(TopN, Len(videos_data))
        /\ \A i \in 1..Len(videos_data) :
              ViewRank(videos_data, i) <= TopN =>
                  analysis.top_videos[ViewRank(videos_data, i)] = TopEntry(videos_data[i])
C8_Witness ==
    /\ apc = "done" /\ Len(videos_data) = TopN + 1 /\ Len(analysis.top_videos) = TopN
    /\ videos_data[1].view_count = Str9 /\ videos_data[2].view_count = Str10
    /\ videos_data[3].view_count = Str10 /\ videos_data[TopN + 1].view_count = Str10
    /\ analysis.top_videos[1].video_id = 2 /\ analysis.top_videos[2].video_id = 3

\* C5 as stated: running the transformer twice for the same date over the same
\* raw input leaves the partition holding the same row set as after the first
\* run.
C5_SameRowSet ==
    \A k \in 1..(Len(history) - 1) : SeqToBag(history[k + 1]) = SeqToBag(history[k])

\* C5 as amended: the second run leaves the same rows apart from each row's
\* processed_timestamp, which is the second run's; no row written by the first
\* run remains and none is duplicated.
WithoutTimestamp(row) == [row EXCEPT !.processed_timestamp = 0]
Stripped(rows) == SeqToBag([k \in 1..Len(rows) |-> WithoutTimestamp(rows[k])])
C5_OverwriteIdempotent ==
    \A k \in 1..(Len(history) - 1) :
        /\ Stripped(history[k + 1]) = Stripped(history[k])
        /\ \A a \in 1..Len(history[k]), b \in 1..Len(history[k + 1]) :
              history[k][a].processed_timestamp < history[k + 1][b].processed_timestamp
C5_Witness ==
    /\ Len(history) = 2 /\ committed /\ Len(history[2]) > 1 /\ store = history[2]

\* C9: for max_results >= 1 and an upstream that lists at most the requested
\* number of items per page over finitely many pages, get_channel_videos
\* terminates; each page request asks for 1 to 50 items; the loop ends as soon
\* as there is no next page or max_results items are held; the list returned
\* has at most max_results items, in upstream order.
PaginationSafe ==
    /\ \A r \in requests : r >= 1 /\ r <= PageCap
    /\ vpc = "loop" /\ pages > 0 => next_page_token # 0 /\ Len(videos) < max_results
    /\ vresult = "list" =>
          /\ vpc = "done"
          /\ next_page_token = 0 \/ Len(videos) >= max_results
    /\ Len(videos) <= max_results
    /\ \A a, b \in 1..Len(videos) : a < b => videos[a].video_id < videos[b].video_id
C9_PaginationTerminates == []PaginationSafe /\ <>(vpc = "done")
C9_Witness ==
    /\ vpc = "done" /\ vresult = "list" /\ max_results = HandlerMaxResults
    /\ Len(videos) = HandlerMaxResults /\ pages = 2 /\ requests = {PageCap}

\* C10: every record returned by get_channel_videos carries the statistics of
\* its own video_id, and every listed playlist item yields a record, whichever
\* ids the statistics response leaves out.
C10_StatisticsBelongToRecord ==
    /\ \A k \in 1..Len(videos) : videos[k].stats_of = videos[k].video_id
    /\ vresult = "list" => listed = {videos[k].video_id : k \in 1..Len(videos)}

====
